---- MODULE Spec2Model ----
(***************************************************************************)
(* Convolutional DRAW (src/draw-cifar10.py).                               *)
(*                                                                         *)
(* The script builds a TensorFlow dataflow graph by unrolling T timesteps  *)
(* (lines 112-135), composes the loss (lines 138-159), builds the          *)
(* optimizer step (lines 163-170) and then runs the graph in a session     *)
(* (lines 195-213).  The model keeps the two levels apart, as the program  *)
(* does: the build actions add nodes to `graph` (with the static shapes    *)
(* TensorFlow infers) and variables to `store`; the run actions evaluate   *)
(* the nodes of the graph in creation order.                               *)
(*                                                                         *)
(* Spec and LiveSpec are the graph construction; SpecEval adds one         *)
(* session run, evaluated with exact arithmetic; SpecSampler applies       *)
(* sampleQ twice to the same input; SpecTrain is the construction followed *)
(* by the optimizer step, the training loop and the generation pass.       *)
(* ConvLSTMCell comes from the module convlstm, which is not part of the   *)
(* sources: a cell is modelled by the shape of its output, by one variable *)
(* per cell scope, and by an arbitrary output value.                       *)
(*                                                                         *)
(* Python lists are 0-based; the sequences here are 1-based, and At(s, k)  *)
(* reads the Python element s[k].                                          *)
(***************************************************************************)
EXTENDS Integers, Sequences, FiniteSets, TLC

\* ------------------------------------------------------------------ bounds
MaxT == 2         \* T ranges over 1..MaxT              (source: T = 32)
MaxHalf == 2      \* A, B range over 2, 4, .. 2*MaxHalf (source: 32, 32)
MaxBatch == 2     \* batch_size ranges over 1..MaxBatch (source: 32)
MaxChan == 2      \* n_chan_x, n_chan_z range over 1..MaxChan (source: 3, 12)
MaxHidden == 1    \* n_chan_he = n_chan_hd              (source: 320)
MaxIters == 2     \* train_iters                         (source: 10000)

VARIABLES
  \* configuration (lines 23-37)
  T, batch_size, A, B, n_chan_x, n_chan_z,
  \* graph construction (lines 41-159)
  pc, t, DO_SHARE, store, createdAt, uses, graph, order,
  rs, mus, logsigmas, sigmas, enc_state, dec_state, r_prev, kl_terms,
  \* one session run of the graph (line 198): the variables' values, the fed
  \* image, the value of every node evaluated so far
  weights, xfeed, val, rpc,
  \* two applications of sampleQ (lines 84-94) to the same h_enc
  sq,
  \* the optimizer step (lines 163-170), the training loop (lines 195-199)
  \* and the generation pass (line 213)
  tpc, hasGrad, grads, gi, warned, train_op, it, fetches, params, g_run,
  read_fwd, read_grad, ai

config == <<T, batch_size, A, B, n_chan_x, n_chan_z>>
build == <<pc, t, DO_SHARE, store, createdAt, uses, graph, order,
           rs, mus, logsigmas, sigmas, enc_state, dec_state, r_prev, kl_terms>>
session == <<weights, xfeed, val, rpc>>
train == <<tpc, hasGrad, grads, gi, warned, train_op, it, fetches, params,
           g_run, read_fwd, read_grad, ai>>
outside == <<config, session, sq, train>>
vars == <<config, build, session, sq, train>>

n_chan_r == n_chan_x * 2
n_chan_hd == MaxHidden
n_chan_he == MaxHidden

At(s, k) == s[k + 1]
SetAt(s, k, v) == [s EXCEPT ![k + 1] = v]

\* ------------------------------------------------------------ static shapes
BadShape == <<0>>          \* the build raised: TensorFlow rejects the shapes

CeilDiv(a, b) == (a + b - 1) \div b

\* tf.nn.conv2d(..., strides=[1,scale,scale,1], padding='SAME') with n_filters
ConvShape(sh, n_filters, scale) ==
  <<sh[1], CeilDiv(sh[2], scale), CeilDiv(sh[3], scale), n_filters>>

\* tf.depth_to_space(h, bs)
DepthToSpaceShape(sh, bs) ==
  IF sh[4] % (bs * bs) = 0
    THEN <<sh[1], sh[2] * bs, sh[3] * bs, sh[4] \div (bs * bs)>>
    ELSE BadShape

\* tf.concat([a, b], 3)
ConcatShape(a, b) ==
  IF a[1] = b[1] /\ a[2] = b[2] /\ a[3] = b[3]
    THEN <<a[1], a[2], a[3], a[4] + b[4]>>
    ELSE BadShape

\* tf.split(r, 2, 3): each of the two halves
SplitShape(sh) ==
  IF sh[4] % 2 = 0 THEN <<sh[1], sh[2], sh[3], sh[4] \div 2>> ELSE BadShape

Max2(a, b) == IF a >= b THEN a ELSE b

\* elementwise +, -, * : numpy broadcasting of two rank-4 shapes
BroadcastShape(a, b) ==
  IF \A i \in 1..4 : a[i] = b[i] \/ a[i] = 1 \/ b[i] = 1
    THEN [i \in 1..4 |-> Max2(a[i], b[i])]
    ELSE BadShape

\* ConvLSTMCell(n, scale): output and state live at the input's resolution
\* divided by scale, with n channels
CellShape(sh, n, scale) ==
  <<sh[1], CeilDiv(sh[2], scale), CeilDiv(sh[3], scale), n>>

\* tf.reduce_sum(x, axis) for a 0-based axis: the axis is removed
ReduceShape(sh, axis) ==
  [i \in 1..(Len(sh) - 1) |-> IF i <= axis THEN sh[i] ELSE sh[i + 1]]

\* ------------------------------------------------------------------- graph
NoNode == <<"0", 0>>       \* the placeholder 0 of [0]*T
NoAttr == [scope |-> "", k |-> 0, scale |-> 1]

Node(op, in, shape, attr) == [op |-> op, in |-> in, shape |-> shape, attr |-> attr]

Shape(name) == graph[name].shape

\* nodes made before the loop: x (line 43), e (line 44), the zero states
\* (lines 118-119)
X == <<"x", 0>>
E == <<"e", 0>>
EncZero == <<"enc_zero", 0>>
DecZero == <<"dec_zero", 0>>

InitGraph ==
  (X :> Node("placeholder", <<>>, <<batch_size, A, B, n_chan_x>>, NoAttr))
  @@ (E :> Node("random_normal", <<>>,
                <<batch_size, A \div 2, B \div 2, n_chan_z>>, NoAttr))
  @@ (EncZero :> Node("zero_state", <<>>,
                <<batch_size, A \div 2, B \div 2, n_chan_he>>, NoAttr))
  @@ (DecZero :> Node("zero_state", <<>>,
                <<batch_size, A \div 2, B \div 2, n_chan_hd>>, NoAttr))

\* ---------------------------------------------------------------- variables
\* tf.get_variable under tf.variable_scope(scope, reuse=DO_SHARE): with
\* reuse=None the variable is created and must not exist yet; with
\* reuse=True it must exist and the existing variable is returned.
ConvVars(scope) == {<<scope, "W">>, <<scope, "b">>}
CellVars(scope) == {<<scope, "kernel">>}

CanGet(names, reuse) ==
  IF reuse = "True" THEN names \subseteq store ELSE names \cap store = {}

GetVariables(role, names) ==
  /\ store' = store \cup names
  /\ createdAt' = IF DO_SHARE = "True" THEN createdAt
                  ELSE [n \in names |-> t] @@ createdAt
  /\ uses' = uses \cup {<<role, t, n>> : n \in names}

Abort ==
  /\ pc' = "error"
  /\ UNCHANGED <<t, DO_SHARE, store, createdAt, uses, graph, order, rs, mus,
                 logsigmas, sigmas, enc_state, dec_state, r_prev, kl_terms>>

\* ------------------------------------------------------------- unroll loop
\* a variant of PrevCanvas: every timestep starts from the zero canvas
PrevCanvasZero == <<"zeros", 0>>

\* line 125: r_prev = tf.zeros(...) if t==0 else rs[t-1]
PrevCanvas == IF t = 0 THEN <<"zeros", 0>> ELSE At(rs, t - 1)

\* lines 125-127: r_prev, (m, s) = split(r_prev), epsilon = x - m
LoopHead ==
  /\ pc = "head" /\ t < T
  /\ UNCHANGED outside
  /\ LET rp == PrevCanvas
         g0 == IF t = 0
                 THEN graph @@ (rp :> Node("zeros", <<>>,
                                   <<batch_size, A, B, n_chan_r>>, NoAttr))
                 ELSE graph
         msh == SplitShape(g0[rp].shape)
         esh == IF msh = BadShape THEN BadShape
                ELSE BroadcastShape(g0[X].shape, msh)
     IN IF esh = BadShape THEN Abort
        ELSE /\ graph' = g0 @@ (<<"m", t>> :> Node("split0", <<rp>>, msh, NoAttr))
                            @@ (<<"s", t>> :> Node("split1", <<rp>>, msh, NoAttr))
                            @@ (<<"epsilon", t>> :>
                                  Node("sub", <<X, <<"m", t>>>>, esh, NoAttr))
             /\ order' = order
                         \o (IF t = 0 THEN <<rp>> ELSE <<>>)
                         \o <<<<"m", t>>, <<"s", t>>, <<"epsilon", t>>>>
             /\ r_prev' = rp
             /\ pc' = "encode"
             /\ UNCHANGED <<t, DO_SHARE, store, createdAt, uses, rs, mus,
                            logsigmas, sigmas, enc_state, dec_state, kl_terms>>

\* line 128 and encode (lines 74-82):
\* h_enc, enc_state = encode(enc_state, tf.concat([x, epsilon], 3))
Encode ==
  /\ pc = "encode"
  /\ UNCHANGED outside
  /\ LET ish == ConcatShape(Shape(X), Shape(<<"epsilon", t>>))
         osh == IF ish = BadShape THEN BadShape ELSE CellShape(ish, n_chan_he, 2)
     IN IF osh = BadShape \/ osh # Shape(enc_state)
           \/ ~CanGet(CellVars("encoder"), DO_SHARE)
          THEN Abort
          ELSE /\ GetVariables("encoder", CellVars("encoder"))
               /\ graph' = graph
                    @@ (<<"enc_in", t>> :>
                          Node("concat", <<X, <<"epsilon", t>>>>, ish, NoAttr))
                    @@ (<<"h_enc", t>> :>
                          Node("cell", <<<<"enc_in", t>>, enc_state>>, osh,
                               [scope |-> "encoder", k |-> 5, scale |-> 2]))
                    @@ (<<"enc_state", t>> :>
                          Node("cell_state", <<<<"h_enc", t>>>>, osh, NoAttr))
               /\ order' = order \o <<<<"enc_in", t>>, <<"h_enc", t>>,
                                      <<"enc_state", t>>>>
               /\ enc_state' = <<"enc_state", t>>
               /\ pc' = "sampleQ"
               /\ UNCHANGED <<t, DO_SHARE, rs, mus, logsigmas, sigmas,
                              dec_state, r_prev, kl_terms>>

\* line 129 and sampleQ (lines 84-94):
\* z, mus[t], logsigmas[t], sigmas[t] = sampleQ(h_enc)
\* line 94 reads the module-level noise tensor e of line 44
SampleQNoise == E

SampleQ ==
  /\ pc = "sampleQ"
  /\ UNCHANGED outside
  /\ LET msh == ConvShape(Shape(<<"h_enc", t>>), n_chan_z, 1)
         zsh == BroadcastShape(msh, BroadcastShape(msh, Shape(SampleQNoise)))
     IN IF zsh = BadShape
           \/ BroadcastShape(msh, Shape(SampleQNoise)) = BadShape
           \/ ~CanGet(ConvVars("mu") \cup ConvVars("sigma"), DO_SHARE)
          THEN Abort
          ELSE /\ store' = store \cup ConvVars("mu") \cup ConvVars("sigma")
               /\ createdAt' =
                    IF DO_SHARE = "True" THEN createdAt
                    ELSE [n \in ConvVars("mu") \cup ConvVars("sigma") |-> t]
                         @@ createdAt
               /\ uses' = uses \cup {<<"mu", t, n>> : n \in ConvVars("mu")}
                               \cup {<<"sigma", t, n>> : n \in ConvVars("sigma")}
               /\ graph' = graph
                    @@ (<<"mu", t>> :>
                          Node("conv", <<<<"h_enc", t>>>>, msh,
                               [scope |-> "mu", k |-> 5, scale |-> 1]))
                    @@ (<<"logsigma", t>> :>
                          Node("conv", <<<<"h_enc", t>>>>, msh,
                               [scope |-> "sigma", k |-> 5, scale |-> 1]))
                    @@ (<<"sigma", t>> :>
                          Node("exp", <<<<"logsigma", t>>>>, msh, NoAttr))
                    @@ (<<"z", t>> :>
                          Node("mu_plus_sigma_e",
                               <<<<"mu", t>>, <<"sigma", t>>, SampleQNoise>>,
                               zsh, NoAttr))
               /\ order' = order \o <<<<"mu", t>>, <<"logsigma", t>>,
                                      <<"sigma", t>>, <<"z", t>>>>
               /\ mus' = SetAt(mus, t, <<"mu", t>>)
               /\ logsigmas' = SetAt(logsigmas, t, <<"logsigma", t>>)
               /\ sigmas' = SetAt(sigmas, t, <<"sigma", t>>)
               /\ pc' = "read"
               /\ UNCHANGED <<t, DO_SHARE, rs, enc_state, dec_state, r_prev,
                              kl_terms>>

\* line 130 and read (lines 100-103): r_prev_down = read(r_prev)
Read ==
  /\ pc = "read"
  /\ UNCHANGED outside
  /\ IF ~CanGet(ConvVars("read"), DO_SHARE)
       THEN Abort
       ELSE /\ GetVariables("read", ConvVars("read"))
            /\ graph' = graph
                 @@ (<<"r_prev_down", t>> :>
                       Node("conv", <<r_prev>>, ConvShape(Shape(r_prev), n_chan_r, 2),
                            [scope |-> "read", k |-> 3, scale |-> 2]))
            /\ order' = order \o <<<<"r_prev_down", t>>>>
            /\ pc' = "decode"
            /\ UNCHANGED <<t, DO_SHARE, rs, mus, logsigmas, sigmas, enc_state,
                           dec_state, r_prev, kl_terms>>

\* line 131 and decode (lines 96-98):
\* h_dec, dec_state = decode(dec_state, tf.concat([z, r_prev_down], 3))
Decode ==
  /\ pc = "decode"
  /\ UNCHANGED outside
  /\ LET ish == ConcatShape(Shape(<<"z", t>>), Shape(<<"r_prev_down", t>>))
         osh == IF ish = BadShape THEN BadShape ELSE CellShape(ish, n_chan_hd, 1)
     IN IF osh = BadShape \/ osh # Shape(dec_state)
           \/ ~CanGet(CellVars("decoder"), DO_SHARE)
          THEN Abort
          ELSE /\ GetVariables("decoder", CellVars("decoder"))
               /\ graph' = graph
                    @@ (<<"dec_in", t>> :>
                          Node("concat", <<<<"z", t>>, <<"r_prev_down", t>>>>,
                               ish, NoAttr))
                    @@ (<<"h_dec", t>> :>
                          Node("cell", <<<<"dec_in", t>>, dec_state>>, osh,
                               [scope |-> "decoder", k |-> 5, scale |-> 1]))
                    @@ (<<"dec_state", t>> :>
                          Node("cell_state", <<<<"h_dec", t>>>>, osh, NoAttr))
               /\ order' = order \o <<<<"dec_in", t>>, <<"h_dec", t>>,
                                      <<"dec_state", t>>>>
               /\ dec_state' = <<"dec_state", t>>
               /\ pc' = "write"
               /\ UNCHANGED <<t, DO_SHARE, rs, mus, logsigmas, sigmas,
                              enc_state, r_prev, kl_terms>>

\* a variant of WriteFilters: the conv of write makes 2*n_chan channels
WriteFiltersHalf(n_chan) == n_chan * 2

\* line 107: h_conv = conv(h_dec, n_chan*4)
WriteFilters(n_chan) == n_chan * 4

\* line 132: the operands of rs[t] = r_prev + write(h_dec)
CanvasOperands == <<r_prev, <<"write", t>>>>

\* a variant of ShareFromNowOn: DO_SHARE is never switched on
ShareNever == "None"

\* line 135: DO_SHARE=True
ShareFromNowOn == "True"

\* lines 132-135 and write (lines 105-108):
\* rs[t] = r_prev + write(h_dec); DO_SHARE=True; the loop moves to t+1
Write ==
  /\ pc = "write"
  /\ UNCHANGED outside
  /\ LET csh == ConvShape(Shape(<<"h_dec", t>>), WriteFilters(n_chan_r), 1)
         wsh == DepthToSpaceShape(csh, 2)
         ash == IF wsh = BadShape THEN BadShape
                ELSE BroadcastShape(Shape(r_prev), wsh)
     IN IF ash = BadShape \/ ~CanGet(ConvVars("write"), DO_SHARE)
          THEN Abort
          ELSE /\ GetVariables("write", ConvVars("write"))
               /\ graph' = graph
                    @@ (<<"h_conv", t>> :>
                          Node("conv", <<<<"h_dec", t>>>>, csh,
                               [scope |-> "write", k |-> 5, scale |-> 1]))
                    @@ (<<"write", t>> :>
                          Node("depth_to_space", <<<<"h_conv", t>>>>, wsh, NoAttr))
                    @@ (<<"rs", t>> :> Node("add", CanvasOperands, ash, NoAttr))
               /\ order' = order \o <<<<"h_conv", t>>, <<"write", t>>, <<"rs", t>>>>
               /\ rs' = SetAt(rs, t, <<"rs", t>>)
               /\ DO_SHARE' = ShareFromNowOn
               /\ t' = t + 1
               /\ pc' = "head"
               /\ UNCHANGED <<mus, logsigmas, sigmas, enc_state, dec_state,
                              r_prev, kl_terms>>

\* ------------------------------------------------------------------- loss
\* a variant of LossCanvas: the loss reads the first canvas
LossCanvasFirst == At(rs, 0)

\* line 144: m, s = tf.split(rs[-1], 2, 3)
LossCanvas == At(rs, T - 1)

\* a variant of KLAxis: the sum runs over the channels, the last of the four axes
KLAxisChannels == 4 - 1

\* line 155: tf.reduce_sum(mu2+sigma2-2*logsigma, 1): the axis that is summed
KLAxis == 1

\* lines 138-159: Lx from the last canvas, kl_terms[t] for every t, KL, Lz, cost
Loss ==
  /\ pc = "head" /\ t = T
  /\ UNCHANGED outside
  /\ LET fsh == SplitShape(Shape(LossCanvas))
         ksh(k) == ReduceShape(Shape(At(mus, k)), KLAxis)
     IN /\ graph' = graph
             @@ (<<"m", T>> :> Node("split0", <<LossCanvas>>, fsh, NoAttr))
             @@ (<<"s", T>> :> Node("split1", <<LossCanvas>>, fsh, NoAttr))
             @@ (<<"Lx", 0>> :>
                   Node("neg_log_normal2_mean", <<X, <<"m", T>>, <<"s", T>>>>,
                        <<>>, NoAttr))
             @@ [n \in {<<"kl_term", k>> : k \in 0..(T - 1)} |->
                   Node("kl_term",
                        <<At(mus, n[2]), At(sigmas, n[2]), At(logsigmas, n[2])>>,
                        ksh(n[2]), NoAttr)]
             @@ (<<"KL", 0>> :>
                   Node("add_n", [k \in 1..T |-> <<"kl_term", k - 1>>],
                        ksh(0), NoAttr))
             @@ (<<"Lz", 0>> :> Node("reduce_mean", <<<<"KL", 0>>>>, <<>>, NoAttr))
             @@ (<<"cost", 0>> :>
                   Node("add", <<<<"Lx", 0>>, <<"Lz", 0>>>>, <<>>, NoAttr))
        /\ order' = order \o <<<<"m", T>>, <<"s", T>>, <<"Lx", 0>>>>
                          \o [k \in 1..T |-> <<"kl_term", k - 1>>]
                          \o <<<<"KL", 0>>, <<"Lz", 0>>, <<"cost", 0>>>>
        /\ kl_terms' = [k \in 1..T |-> <<"kl_term", k - 1>>]
        /\ pc' = "built"
        /\ UNCHANGED <<t, DO_SHARE, store, createdAt, uses, rs, mus, logsigmas,
                       sigmas, enc_state, dec_state, r_prev>>

\* ------------------------------------------------------------------ numbers
\* The values the graph computes are integers and, after tf.exp, integer
\* combinations of powers of e.  A number is kept exactly, as sum_k c[k]*e^k / d
\* with integer c[k] # 0 and d > 0 in lowest terms (e is transcendental, so
\* two numbers are equal exactly when these forms are equal).
Abs(n) == IF n < 0 THEN -n ELSE n

RECURSIVE GCD(_, _)
GCD(a, b) == IF b = 0 THEN a ELSE GCD(b, a % b)

RECURSIVE GCDSet(_)
GCDSet(S) ==
  IF S = {} THEN 0
  ELSE LET a == CHOOSE a \in S : TRUE IN GCD(a, GCDSet(S \ {a}))

RECURSIVE SumSet(_, _)
SumSet(f, S) ==
  IF S = {} THEN 0
  ELSE LET a == CHOOSE a \in S : TRUE IN f[a] + SumSet(f, S \ {a})

NumNorm(c, d) ==
  LET nz == {k \in DOMAIN c : c[k] # 0}
      g == GCDSet({Abs(c[k]) : k \in nz} \cup {d})
  IN [c |-> [k \in nz |-> c[k] \div g], d |-> d \div g]

Coef(x, k) == IF k \in DOMAIN x.c THEN x.c[k] ELSE 0

NumFrac(n, d) == NumNorm((0 :> n), d)
NumInt(n) == NumFrac(n, 1)
\* a variant of NumExp: sigma is logsigma itself
NumExpLinear(k) == NumInt(k)

\* tf.exp of an integer k
NumExp(k) == [c |-> (k :> 1), d |-> 1]

NumAdd(x, y) ==
  NumNorm([k \in DOMAIN x.c \cup DOMAIN y.c |->
             Coef(x, k) * y.d + Coef(y, k) * x.d], x.d * y.d)

NumNeg(x) == [c |-> [k \in DOMAIN x.c |-> -x.c[k]], d |-> x.d]
NumSub(x, y) == NumAdd(x, NumNeg(y))

NumMul(x, y) ==
  LET ks == {a + b : a \in DOMAIN x.c, b \in DOMAIN y.c}
  IN NumNorm([k \in ks |->
                SumSet([a \in DOMAIN x.c |-> x.c[a] * Coef(y, k - a)], DOMAIN x.c)],
             x.d * y.d)

RECURSIVE NumSum(_, _)
\* the sum of the numbers f[i], i in S
NumSum(f, S) ==
  IF S = {} THEN NumInt(0)
  ELSE LET a == CHOOSE a \in S : TRUE IN NumAdd(f[a], NumSum(f, S \ {a}))

\* ------------------------------------------------------------------ tensors
\* A tensor is its shape and its elements, indexed from 1 on every axis.
\* the indices of a tensor of shape sh (rank 0 to 4)
IdxSet(sh) ==
  CASE Len(sh) = 0 -> {<<>>}
    [] Len(sh) = 1 -> {<<i>> : i \in 1..sh[1]}
    [] Len(sh) = 2 -> (1..sh[1]) \X (1..sh[2])
    [] Len(sh) = 3 -> (1..sh[1]) \X (1..sh[2]) \X (1..sh[3])
    [] Len(sh) = 4 -> (1..sh[1]) \X (1..sh[2]) \X (1..sh[3]) \X (1..sh[4])

Fill(sh, c) == [shape |-> sh, v |-> [i \in IdxSet(sh) |-> c]]

RECURSIVE SumIdx(_, _)
\* s[1] + .. + s[n]
SumIdx(s, n) == IF n = 0 THEN 0 ELSE s[n] + SumIdx(s, n - 1)

\* the index of a's element that numpy broadcasting pairs with index i
Bidx(a, i) == [d \in 1..Len(i) |-> IF a.shape[d] = 1 THEN 1 ELSE i[d]]

\* elementwise a (op) b with broadcasting
Map2(a, b, Op(_, _)) ==
  LET sh == [d \in 1..Len(a.shape) |-> Max2(a.shape[d], b.shape[d])]
  IN [shape |-> sh,
      v |-> [i \in IdxSet(sh) |-> Op(a.v[Bidx(a, i)], b.v[Bidx(b, i)])]]

Map1(a, Op(_)) == [shape |-> a.shape, v |-> [i \in DOMAIN a.v |-> Op(a.v[i])]]

IntAdd(p, q) == p + q
IntSub(p, q) == p - q

\* tf.split(r, 2, 3)[half], half = 0 or 1
SplitValue(r, half) ==
  LET c == r.shape[4] \div 2
      sh == <<r.shape[1], r.shape[2], r.shape[3], c>>
  IN [shape |-> sh,
      v |-> [i \in IdxSet(sh) |-> r.v[<<i[1], i[2], i[3], i[4] + half * c>>]]]

\* tf.concat([a, b], 3)
ConcatValue(a, b) ==
  LET sh == <<a.shape[1], a.shape[2], a.shape[3], a.shape[4] + b.shape[4]>>
  IN [shape |-> sh,
      v |-> [i \in IdxSet(sh) |->
               IF i[4] <= a.shape[4] THEN a.v[i]
               ELSE b.v[<<i[1], i[2], i[3], i[4] - a.shape[4]>>]]]

\* tf.nn.conv2d(x, W, strides=[1,scale,scale,1], padding='SAME') + b
\* SAME padding: out = ceil(in/scale), pad = max((out-1)*scale + k - in, 0),
\* of which pad \div 2 goes before the first row (column).
PadBefore(in, k, scale) ==
  Max2((CeilDiv(in, scale) - 1) * scale + k - in, 0) \div 2

ConvValue(x, W, b, scale) ==
  LET k == W.shape[1]
      H == x.shape[2]
      Wd == x.shape[3]
      C == x.shape[4]
      sh == <<x.shape[1], CeilDiv(H, scale), CeilDiv(Wd, scale), W.shape[4]>>
      pr == PadBefore(H, k, scale)
      pcl == PadBefore(Wd, k, scale)
      \* input position q = (r, cc, ch) and the kernel tap that meets it
      Row(q) == ((q - 1) \div (Wd * C)) + 1
      Col(q) == (((q - 1) \div C) % Wd) + 1
      Ch(q) == ((q - 1) % C) + 1
      Term(i, q) ==
        LET di == Row(q) - ((i[2] - 1) * scale - pr + 1)
            dj == Col(q) - ((i[3] - 1) * scale - pcl + 1)
        IN IF di \in 0..(k - 1) /\ dj \in 0..(k - 1)
             THEN x.v[<<i[1], Row(q), Col(q), Ch(q)>>]
                  * W.v[<<di + 1, dj + 1, Ch(q), i[4]>>]
             ELSE 0
  IN [shape |-> sh,
      v |-> [i \in IdxSet(sh) |->
               SumIdx([q \in 1..(H * Wd * C) |-> Term(i, q)], H * Wd * C)
               + b.v[<<i[4]>>]]]

\* tf.depth_to_space(x, bs): out[b, h*bs+i, w*bs+j, c] = x[b, h, w, (i*bs+j)*C+c]
\* (0-based), C the number of output channels
DepthToSpaceValue(x, bs) ==
  LET C == x.shape[4] \div (bs * bs)
      sh == <<x.shape[1], x.shape[2] * bs, x.shape[3] * bs, C>>
  IN [shape |-> sh,
      v |-> [o \in IdxSet(sh) |->
               x.v[<<o[1], ((o[2] - 1) \div bs) + 1, ((o[3] - 1) \div bs) + 1,
                     (((o[2] - 1) % bs) * bs + ((o[3] - 1) % bs)) * C + o[4]>>]]]

\* tf.reduce_sum(x, axis) of a tensor of numbers, axis 0-based
ReduceSumValue(x, axis) ==
  LET sh == ReduceShape(x.shape, axis)
      Full(o, i) == [d \in 1..Len(x.shape) |->
                       IF d <= axis THEN o[d]
                       ELSE IF d = axis + 1 THEN i ELSE o[d - 1]]
  IN [shape |-> sh,
      v |-> [o \in IdxSet(sh) |->
               NumSum([i \in 1..x.shape[axis + 1] |-> x.v[Full(o, i)]],
                      1..x.shape[axis + 1])]]

\* line 94: mu + sigma * e
SampleValue(mu, sigma, e) ==
  Map2(Map1(mu, NumInt), Map2(sigma, Map1(e, NumInt), NumMul), NumAdd)

\* lines 152-155: 0.5*tf.reduce_sum(mu2+sigma2-2*logsigma, 1) - .5
KLTermValue(mu, sigma, logsigma) ==
  LET Sq(n) == NumInt(n * n)
      Sq2(x) == NumMul(x, x)
      M2(n) == NumInt(-2 * n)
      inner == Map2(Map2(Map1(mu, Sq), Map1(sigma, Sq2), NumAdd),
                    Map1(logsigma, M2), NumAdd)
      HalfMinusHalf(x) == NumSub(NumMul(NumFrac(1, 2), x), NumFrac(1, 2))
  IN Map1(ReduceSumValue(inner, KLAxis), HalfMinusHalf)

\* line 156: tf.add_n(kl_terms)
AddNValue(ts) ==
  [shape |-> ts[1].shape,
   v |-> [i \in DOMAIN ts[1].v |->
            NumSum([k \in 1..Len(ts) |-> ts[k].v[i]], 1..Len(ts))]]

\* line 157: tf.reduce_mean(KL)
ReduceMeanValue(x) ==
  Fill(<<>>, NumMul(NumSum(x.v, DOMAIN x.v),
                    NumFrac(1, Cardinality(DOMAIN x.v))))

\* ------------------------------------------------------------- session run
ConvRoles == {"mu", "sigma", "read", "write"}
WVals == {0, 1}       \* a kernel's entries all equal one of these values
HVals == {0, 1}       \* a cell's output entries all equal one of these values
NoiseVals == {-1, 1}  \* a noise draw's entries all equal one of these values
XVals == {0, 1}   \* pixel values lie in [0, 1] (lines 175-176)

\* conv (lines 62-66): W of shape [filter_dim, filter_dim, n_input_chan,
\* n_filters], b of shape [n_filters] initialised to 0
KernelValue(node, in) ==
  Fill(<<node.attr.k, node.attr.k, in.shape[4], node.shape[4]>>,
       weights[node.attr.scope])
BiasValue(node) == Fill(<<node.shape[4]>>, 0)

\* the value of a node whose op is a function of its inputs' values
OpValue(node, vals) ==
  LET in(k) == vals[node.in[k]]
  IN CASE node.op \in {"zeros", "zero_state"} -> Fill(node.shape, 0)
       [] node.op = "split0" -> SplitValue(in(1), 0)
       [] node.op = "split1" -> SplitValue(in(1), 1)
       [] node.op = "sub" -> Map2(in(1), in(2), IntSub)
       [] node.op = "add" -> Map2(in(1), in(2), IntAdd)
       [] node.op = "concat" -> ConcatValue(in(1), in(2))
       [] node.op = "cell_state" -> in(1)
       [] node.op = "conv" ->
            ConvValue(in(1), KernelValue(node, in(1)), BiasValue(node),
                      node.attr.scale)
       [] node.op = "exp" -> Map1(in(1), NumExp)
       [] node.op = "mu_plus_sigma_e" -> SampleValue(in(1), in(2), in(3))
       [] node.op = "depth_to_space" -> DepthToSpaceValue(in(1), 2)
       [] node.op = "kl_term" -> KLTermValue(in(1), in(2), in(3))
       [] node.op = "add_n" -> AddNValue([k \in 1..Len(node.in) |-> in(k)])
       [] node.op = "reduce_mean" -> ReduceMeanValue(in(1))

\* The run evaluates the canvases rs and Lz and what they depend on, in the
\* order the nodes were created.  Lx and cost (the Gaussian log-density of
\* lines 138-148) are not evaluated.
Fetched(name) == graph[name].op # "neg_log_normal2_mean" /\ name # <<"cost", 0>>
RunOrder == SelectSeq(order, Fetched)

SourceOps == {"placeholder", "random_normal", "cell"}

Running == pc = "built" /\ rpc <= Len(RunOrder)
RunDone == pc = "built" /\ rpc = Len(RunOrder) + 1
Current == RunOrder[rpc]

Evaluate(v) ==
  /\ val' = (Current :> v) @@ val
  /\ rpc' = rpc + 1
  /\ UNCHANGED <<config, build, weights, xfeed, sq, train>>

\* feed_dict={x: xtrain} (line 197)
RunFeed ==
  /\ Running /\ graph[Current].op = "placeholder"
  /\ Evaluate(Fill(graph[Current].shape, xfeed))

\* a tf.random_normal node draws one value per run
RunRandom ==
  /\ Running /\ graph[Current].op = "random_normal"
  /\ \E f \in NoiseVals : Evaluate(Fill(graph[Current].shape, f))

\* ConvLSTMCell: some output of the cell's shape
RunCell ==
  /\ Running /\ graph[Current].op = "cell"
  /\ \E f \in HVals : Evaluate(Fill(graph[Current].shape, f))

\* an op that is a function of its inputs
RunOp ==
  /\ Running /\ graph[Current].op \notin SourceOps
  /\ Evaluate(OpValue(graph[Current], val))

\* ------------------------------------------------------------------ sampleQ
\* sampleQ (lines 84-94) as a function of h_enc and of the value drawn for e:
\* mu and logsigma are the two conv heads, sigma = exp(logsigma), and
\* z = mu + sigma*e
SampleQValue(h_enc, e) ==
  LET head(scope) ==
        LET node == Node("conv", <<>>, ConvShape(h_enc.shape, n_chan_z, 1),
                         [scope |-> scope, k |-> 5, scale |-> 1])
        IN ConvValue(h_enc, KernelValue(node, h_enc), BiasValue(node), 1)
      mu == head("mu")
      logsigma == head("sigma")
      sigma == Map1(logsigma, NumExp)
  IN [z |-> SampleValue(mu, sigma, e), mu |-> mu, logsigma |-> logsigma,
      sigma |-> sigma]

\* the tensors of shape sh with elements in S
Tensors(sh, S) == {[shape |-> sh, v |-> f] : f \in [IdxSet(sh) -> S]}

SqIdle == [h_enc |-> <<>>, e |-> <<>>, out |-> <<>>]

\* the first of two applications of sampleQ to the same h_enc, with noise e[1]
SampleFirst ==
  /\ Len(sq.e) = 2 /\ Len(sq.out) = 0
  /\ sq' = [sq EXCEPT !.out = Append(@, SampleQValue(sq.h_enc, sq.e[1]))]
  /\ UNCHANGED <<config, build, session, train>>

\* the second application, with noise e[2]
SampleSecond ==
  /\ Len(sq.e) = 2 /\ Len(sq.out) = 1
  /\ sq' = [sq EXCEPT !.out = Append(@, SampleQValue(sq.h_enc, sq.e[2]))]
  /\ UNCHANGED <<config, build, session, train>>

\* ----------------------------------------------------------- optimizer step
\* the trainable variables, in the order the build creates them (lines 128-132)
VarOrder ==
  << <<"encoder", "kernel">>, <<"mu", "W">>, <<"mu", "b">>, <<"sigma", "W">>,
     <<"sigma", "b">>, <<"read", "W">>, <<"read", "b">>, <<"decoder", "kernel">>,
     <<"write", "W">>, <<"write", "b">> >>
AllVars == {VarOrder[k] : k \in DOMAIN VarOrder}
InStore(n) == n \in store
TrainableVars == SelectSeq(VarOrder, InStore)

\* a variable's value is the initial value (line 187) followed by the updates
\* applied to it so far
Untrained == [v \in AllVars |-> <<>>]

TrainIdle ==
  /\ tpc = "start"
  /\ grads = <<>> /\ gi = 0 /\ warned = <<>> /\ train_op = <<>>
  /\ it = 0 /\ fetches = {} /\ g_run = 0 /\ ai = 0
  /\ params = Untrained /\ read_fwd = Untrained /\ read_grad = Untrained

\* line 164: grads=optimizer.compute_gradients(cost): one (g, v) pair for every
\* trainable variable, g None where tf.gradients defines no gradient
ComputeGradients ==
  /\ pc = "built" /\ tpc = "start"
  /\ grads' = [k \in 1..Len(TrainableVars) |->
                 [g |-> IF hasGrad[TrainableVars[k]] THEN "g" ELSE "None",
                  v |-> TrainableVars[k]]]
  /\ gi' = 0
  /\ tpc' = "clip"
  /\ UNCHANGED <<config, build, session, sq, hasGrad, warned, train_op, it,
                 fetches, params, g_run, read_fwd, read_grad, ai>>

\* lines 165-169: one iteration of the loop over grads
ClipOrWarn ==
  /\ tpc = "clip" /\ gi < Len(grads)
  /\ LET gv == At(grads, gi)
     IN IF gv.g # "None"
          THEN /\ grads' = SetAt(grads, gi, [g |-> "clip_by_norm", v |-> gv.v])
               /\ warned' = warned
          ELSE /\ warned' = Append(warned, gv.v)
               /\ grads' = grads
  /\ gi' = gi + 1
  /\ UNCHANGED <<config, build, session, sq, tpc, hasGrad, train_op, it,
                 fetches, params, g_run, read_fwd, read_grad, ai>>

HasGradient(gv) == gv.g # "None"

\* line 170: train_op=optimizer.apply_gradients(grads): the pairs whose
\* gradient is None are dropped; with no pair left apply_gradients raises
\* ValueError("No gradients provided for any variable")
ApplyGradients ==
  /\ tpc = "clip" /\ gi = Len(grads)
  /\ IF SelectSeq(grads, HasGradient) = <<>>
       THEN /\ tpc' = "aborted"
            /\ train_op' = train_op
       ELSE /\ train_op' = SelectSeq(grads, HasGradient)
            /\ tpc' = "train"
  /\ UNCHANGED <<config, build, session, sq, hasGrad, grads, gi, warned, it,
                 fetches, params, g_run, read_fwd, read_grad, ai>>

\* ------------------------------------------------------------ training loop
train_iters == MaxIters

\* lines 179-180: fetches.extend([Lx,Lz,m,train_op])
TrainFetches == {"Lx", "Lz", "m", "train_op"}

\* a variant of GenerationFetches: the generation pass runs the training fetches
GenerationFetchesTrain == TrainFetches

\* line 213: canvases=sess.run(rs,feed_dict)
GenerationFetches == {"rs"}

\* a gradient's value in one run (every variable's gradient takes this value)
GradVals == {-10, 3}

\* a variant of ClipByNorm: the gradient is applied as it is
ClipByNormOff(g, c) == g

\* tf.clip_by_norm(g, c) = g * c / max(norm(g), c)
ClipByNorm(g, c) == (g * c) \div Max2(Abs(g), c)

\* lines 195-198: the next iteration calls sess.run(fetches, feed_dict)
StartTrainStep ==
  /\ tpc = "train" /\ it < train_iters
  /\ fetches' = TrainFetches
  /\ tpc' = "fwd"
  /\ UNCHANGED <<config, build, session, sq, hasGrad, grads, gi, warned,
                 train_op, it, params, g_run, read_fwd, read_grad, ai>>

\* line 213: after the loop, sess.run(rs, feed_dict)
StartGeneration ==
  /\ tpc = "train" /\ it = train_iters
  /\ fetches' = GenerationFetches
  /\ tpc' = "fwd"
  /\ UNCHANGED <<config, build, session, sq, hasGrad, grads, gi, warned,
                 train_op, it, params, g_run, read_fwd, read_grad, ai>>

\* sess.run returns: line 199 and the next i, or the end of the script
FinishRun ==
  IF it < train_iters
    THEN it' = it + 1 /\ tpc' = "train"
    ELSE it' = it /\ tpc' = "end"

\* the run's forward pass reads the variables
RunForward ==
  /\ tpc = "fwd"
  /\ read_fwd' = params
  /\ IF "train_op" \in fetches
       THEN tpc' = "grad" /\ it' = it
       ELSE FinishRun
  /\ UNCHANGED <<config, build, session, sq, hasGrad, grads, gi, warned,
                 train_op, fetches, params, g_run, read_grad, ai>>

\* train_op depends on the gradients, and the gradients on the forward pass:
\* the gradient ops read the variables and produce this run's gradient
RunGradients ==
  /\ tpc = "grad"
  /\ read_grad' = params
  /\ g_run' \in GradVals
  /\ ai' = 0
  /\ tpc' = "apply"
  /\ UNCHANGED <<config, build, session, sq, hasGrad, grads, gi, warned,
                 train_op, it, fetches, params, read_fwd>>

\* train_op applies the pairs of line 170 one variable at a time
RunApply ==
  /\ tpc = "apply" /\ ai < Len(train_op)
  /\ LET u == At(train_op, ai)
         upd == IF u.g = "clip_by_norm" THEN ClipByNorm(g_run, 5) ELSE g_run
     IN params' = [params EXCEPT ![u.v] = Append(@, upd)]
  /\ ai' = ai + 1
  /\ IF ai + 1 = Len(train_op)
       THEN FinishRun
       ELSE tpc' = tpc /\ it' = it
  /\ UNCHANGED <<config, build, session, sq, hasGrad, grads, gi, warned,
                 train_op, fetches, g_run, read_fwd, read_grad>>

\* ------------------------------------------------------- the build, as Spec
Evens == {2 * k : k \in 1..MaxHalf}

\* lines 23-47 and 112-119: the configuration, and the state before the loop
InitBuild ==
  /\ pc = "head" /\ t = 0
  /\ DO_SHARE = "None"
  /\ store = {}
  /\ createdAt = [n \in {} |-> 0]
  /\ uses = {}
  /\ graph = InitGraph
  /\ order = <<X, E, EncZero, DecZero>>
  /\ rs = [k \in 1..T |-> NoNode]
  /\ mus = [k \in 1..T |-> NoNode]
  /\ logsigmas = [k \in 1..T |-> NoNode]
  /\ sigmas = [k \in 1..T |-> NoNode]
  /\ kl_terms = [k \in 1..T |-> NoNode]
  /\ enc_state = EncZero
  /\ dec_state = DecZero
  /\ r_prev = NoNode

SessionIdle ==
  /\ xfeed = 0
  /\ val = [n \in {} |-> 0]
  /\ rpc = 1

Init ==
  /\ T \in 1..MaxT
  /\ batch_size \in 1..MaxBatch
  /\ A \in Evens /\ B \in Evens
  /\ n_chan_x \in 1..MaxChan
  /\ n_chan_z \in 1..MaxChan
  /\ InitBuild
  /\ weights = [r \in ConvRoles |-> 0]
  /\ SessionIdle
  /\ sq = SqIdle
  /\ hasGrad = [v \in AllVars |-> TRUE]
  /\ TrainIdle

Next ==
  \/ LoopHead \/ Encode \/ SampleQ \/ Read \/ Decode \/ Write \/ Loss

Spec == Init /\ [][Next]_vars

\* the script runs top to bottom: every enabled statement is executed
LiveSpec == Spec /\ WF_vars(Next)


\* ------------------------------------------ the build and one run, as SpecEval
\* the configuration of the end-to-end scenario (batch_size=1, A=B=4,
\* n_chan_x=n_chan_z=1), any T, any kernels of the two heads, the read and
\* write kernels equal, either image
InitEval ==
  /\ T \in 1..MaxT
  /\ batch_size = 1
  /\ A = 4 /\ B = 4
  /\ n_chan_x = 1
  /\ n_chan_z = 1
  /\ InitBuild
  /\ weights \in {w \in [ConvRoles -> WVals] : w["read"] = w["write"]}
  /\ xfeed \in XVals
  /\ val = [n \in {} |-> 0]
  /\ rpc = 1
  /\ sq = SqIdle
  /\ hasGrad = [v \in AllVars |-> TRUE]
  /\ TrainIdle

NextEval ==
  \/ LoopHead \/ Encode \/ SampleQ \/ Read \/ Decode \/ Write \/ Loss
  \/ RunFeed \/ RunRandom \/ RunCell \/ RunOp

SpecEval == InitEval /\ [][NextEval]_vars

\* ------------------------------------ two runs of sampleQ, as SpecSampler
\* any kernels of the two heads, any h_enc with equal entries, any two noise
\* tensors, at a latent resolution of 2 x 1
InitSampler ==
  /\ T = 1
  /\ batch_size = 1
  /\ A = 4 /\ B = 2
  /\ n_chan_x = 1
  /\ n_chan_z \in 1..MaxChan
  /\ InitBuild
  /\ weights \in {w \in [ConvRoles -> WVals] : w["read"] = 0 /\ w["write"] = 0}
  /\ SessionIdle
  /\ sq \in {[h_enc |-> Fill(<<batch_size, A \div 2, B \div 2, n_chan_he>>, f),
              e |-> <<e1, e2>>, out |-> <<>>] :
               f \in HVals,
               e1 \in Tensors(<<batch_size, A \div 2, B \div 2, n_chan_z>>, NoiseVals),
               e2 \in Tensors(<<batch_size, A \div 2, B \div 2, n_chan_z>>, NoiseVals)}
  /\ hasGrad = [v \in AllVars |-> TRUE]
  /\ TrainIdle

NextSampler == SampleFirst \/ SampleSecond

SpecSampler == InitSampler /\ [][NextSampler]_vars

\* ---------------- the build, the optimizer step and the training, as SpecTrain
\* the smallest configuration; tf.gradients may define a gradient for any
\* subset of the variables
InitTrain ==
  /\ T = 1
  /\ batch_size = 1
  /\ A = 2 /\ B = 2
  /\ n_chan_x = 1
  /\ n_chan_z = 1
  /\ InitBuild
  /\ weights = [r \in ConvRoles |-> 0]
  /\ SessionIdle
  /\ sq = SqIdle
  /\ hasGrad \in [AllVars -> BOOLEAN]
  /\ TrainIdle

NextTrain ==
  \/ LoopHead \/ Encode \/ SampleQ \/ Read \/ Decode \/ Write \/ Loss
  \/ ComputeGradients \/ ClipOrWarn \/ ApplyGradients
  \/ StartTrainStep \/ StartGeneration
  \/ RunForward \/ RunGradients \/ RunApply

SpecTrain == InitTrain /\ [][NextTrain]_vars


\* ------------------------------------------------------------------ claims
Roles == {"encoder", "decoder", "read", "write", "mu", "sigma"}
RoleVars(role) ==
  IF role \in {"encoder", "decoder"} THEN CellVars(role) ELSE ConvVars(role)

\* the variables the invocation of `role` at timestep k resolved to
UsedBy(role, k) == {u[3] : u \in {w \in uses : w[1] = role /\ w[2] = k}}
\* the timesteps at which `role` has been invoked so far
Invoked(role) == {u[2] : u \in {w \in uses : w[1] = role}}
\* the timesteps whose node `label` exists
Built(label) == {k \in 0..(T - 1) : <<label, k>> \in DOMAIN graph}

\* C1: for every T and every role, the invocation at t=0 creates the role's
\* parameter set and every invocation at t>0 resolves to exactly that set and
\* creates nothing (the build never fails on a variable), so that after the
\* unroll the store holds exactly one parameter set per role.
C1_ParameterSharing ==
  /\ pc # "error"
  /\ \A n \in DOMAIN createdAt : createdAt[n] = 0
  /\ DOMAIN createdAt = store
  /\ \A role \in Roles :
       /\ \A k \in Invoked(role) :
            /\ UsedBy(role, k) = RoleVars(role)
            /\ UsedBy(role, k) = UsedBy(role, 0)
       /\ Invoked(role) # {} =>
            {n \in store : n[1] = role} = RoleVars(role)
  /\ pc = "built" =>
       /\ \A role \in Roles : Invoked(role) = 0..(T - 1)
       /\ store = UNION {RoleVars(role) : role \in Roles}

C1_Witness ==
  /\ pc = "built" /\ T >= 2
  /\ \A role \in Roles : UsedBy(role, 1) = UsedBy(role, 0) /\ UsedBy(role, 1) # {}

\* C3: every canvas has shape (batch_size, A, B, 2*n_chan_x); read maps the
\* canvas to (A/2, B/2), the decoder works at (A/2, B/2), write returns a
\* tensor of the canvas shape, and r_prev + write(h_dec) adds equal shapes.
CanvasShape == <<batch_size, A, B, 2 * n_chan_x>>

C3_CanvasShape ==
  /\ pc # "error"
  /\ \A k \in Built("r_prev_down") :
       Shape(<<"r_prev_down", k>>) = <<batch_size, A \div 2, B \div 2, 2 * n_chan_x>>
  /\ \A k \in Built("h_dec") :
       Shape(<<"h_dec", k>>) = <<batch_size, A \div 2, B \div 2, n_chan_hd>>
  /\ \A k \in Built("rs") :
       /\ Shape(<<"rs", k>>) = CanvasShape
       /\ Shape(<<"write", k>>) = CanvasShape
       /\ Shape(graph[<<"rs", k>>].in[1]) = Shape(graph[<<"rs", k>>].in[2])

C3_Witness ==
  /\ pc = "built" /\ T >= 2 /\ A # B /\ batch_size >= 2 /\ n_chan_x >= 2
  /\ Built("rs") = 0..(T - 1)

\* C4: the noise used by the Sampler at timestep t1 is a separate draw from
\* the one used at timestep t2, for all t1 # t2 (a tf.random_normal node is
\* drawn once per run, so separate draws are separate nodes).
NoiseOf(k) == graph[<<"z", k>>].in[3]

C4_FreshNoisePerTimestep ==
  \A t1, t2 \in Built("z") : t1 # t2 => NoiseOf(t1) # NoiseOf(t2)

\* C5: kl[t] is a per-example vector, one scalar per batch element.
C5_KLPerExample ==
  pc = "built" => \A k \in 0..(T - 1) : Shape(At(kl_terms, k)) = <<batch_size>>

\* C10: the unroll runs the timesteps 0..T-1 in increasing order and then
\* terminates; each recurrent state is the zero state before t=0 and is
\* replaced once per timestep by the state its own cell returned, and the
\* state passed to a cell at t>0 is the one that cell returned at t-1; at the
\* end rs, mus, logsigmas and sigmas hold T entries, entry t made at timestep
\* t, Lx reads only rs[T-1] and the KL term reads all T Gaussian triples.
Threaded(cell, state, zero) ==
  /\ \A k \in Built(cell) :
       /\ graph[<<cell, k>>].in[2] = IF k = 0 THEN zero ELSE <<state, k - 1>>
       /\ graph[<<state, k>>].in = <<<<cell, k>>>>
  /\ graph[zero].op = "zero_state"

CurrentState(cell, state, zero) ==
  IF Built(cell) = {} THEN zero ELSE <<state, Cardinality(Built(cell)) - 1>>

C10_Inv ==
  /\ pc # "error"
  /\ t \in 0..T
  /\ \A label \in {"h_enc", "h_dec", "z", "rs"} :
       Built(label) \in {0..(t - 1), 0..t}
  /\ Threaded("h_enc", "enc_state", EncZero)
  /\ Threaded("h_dec", "dec_state", DecZero)
  /\ enc_state = CurrentState("h_enc", "enc_state", EncZero)
  /\ dec_state = CurrentState("h_dec", "dec_state", DecZero)
  /\ pc = "built" =>
       /\ t = T
       /\ Len(rs) = T /\ Len(mus) = T /\ Len(logsigmas) = T /\ Len(sigmas) = T
       /\ \A k \in 0..(T - 1) :
            /\ At(rs, k) = <<"rs", k>>
            /\ At(mus, k) = <<"mu", k>>
            /\ At(logsigmas, k) = <<"logsigma", k>>
            /\ At(sigmas, k) = <<"sigma", k>>
            /\ graph[At(sigmas, k)].in = <<At(logsigmas, k)>>
            /\ graph[At(mus, k)].in = <<<<"h_enc", k>>>>
            /\ graph[At(logsigmas, k)].in = <<<<"h_enc", k>>>>
            /\ graph[At(kl_terms, k)].in
                 = <<At(mus, k), At(sigmas, k), At(logsigmas, k)>>
       /\ graph[<<"KL", 0>>].in = kl_terms
       /\ graph[<<"Lz", 0>>].in = <<<<"KL", 0>>>>
       /\ graph[<<"Lx", 0>>].in = <<X, <<"m", T>>, <<"s", T>>>>
       /\ graph[<<"m", T>>].in = <<<<"rs", T - 1>>>>
       /\ graph[<<"s", T>>].in = <<<<"rs", T - 1>>>>

C10_Step ==
  /\ t' \in {t, t + 1}
  /\ enc_state' # enc_state => pc = "encode" /\ enc_state' = <<"enc_state", t>>
  /\ dec_state' # dec_state => pc = "decode" /\ dec_state' = <<"dec_state", t>>
  /\ pc = "built" => pc' = "built"

C10_Unroll == []C10_Inv /\ [][C10_Step]_vars /\ <>(pc = "built")

C10_Witness ==
  /\ pc = "built" /\ T >= 2
  /\ graph[<<"h_enc", 1>>].in[2] = <<"enc_state", 0>>
  /\ graph[<<"h_dec", 1>>].in[2] = <<"dec_state", 0>>


\* C2: the previous canvas used at t=0 is all-zero and canvas[t] = canvas[t-1]
\* + write(h_dec[t]) for every t, so canvas[t] is the sum of the write outputs
\* of timesteps 0..t; a stored canvas is never modified by a later timestep.
Evaluated(label) == {k \in 0..(T - 1) : <<label, k>> \in DOMAIN val}

C2_Inv ==
  /\ \A k \in Built("rs") :
       /\ graph[<<"write", k>>].in = <<<<"h_conv", k>>>>
       /\ graph[<<"h_conv", k>>].in = <<<<"h_dec", k>>>>
       /\ graph[<<"h_conv", k>>].attr.scope = "write"
  /\ \A k \in Evaluated("rs") :
       LET c == val[<<"rs", k>>]
           w == val[<<"write", k>>]
       IN /\ c.shape = CanvasShape
          /\ k = 0 => /\ val[graph[<<"rs", 0>>].in[1]] = Fill(CanvasShape, 0)
                      /\ c.v = w.v
          /\ k > 0 => \A i \in DOMAIN c.v :
                        c.v[i] = val[<<"rs", k - 1>>].v[i] + w.v[i]
          /\ \A i \in DOMAIN c.v :
               c.v[i] = SumIdx([j \in 1..(k + 1) |-> val[<<"write", j - 1>>].v[i]],
                               k + 1)

C2_Step ==
  \A k \in 0..(T - 1) :
    /\ At(rs, k) # NoNode =>
         /\ At(rs', k) = At(rs, k)
         /\ graph'[At(rs, k)] = graph[At(rs, k)]
    /\ <<"rs", k>> \in DOMAIN val =>
         /\ <<"rs", k>> \in DOMAIN val'
         /\ val'[<<"rs", k>>] = val[<<"rs", k>>]

C2_CanvasAccumulates == []C2_Inv /\ [][C2_Step]_vars

C2_Witness ==
  /\ T >= 2 /\ RunDone
  /\ \E i \in DOMAIN val[<<"rs", 0>>].v :
       /\ val[<<"rs", 0>>].v[i] # 0
       /\ val[<<"rs", 1>>].v[i] # val[<<"rs", 0>>].v[i]
       /\ val[<<"write", 1>>].v[i] # 0

\* C6: with T=1, batch_size=1, A=B=4, n_chan_x=n_chan_z=1, all parameters
\* zero and a zero image, canvas[0] is all zeros and Lz is -0.5 (the original
\* statement) / 0.5 (the amended one).
ZeroScenario ==
  /\ T = 1 /\ batch_size = 1 /\ A = 4 /\ B = 4 /\ n_chan_x = 1 /\ n_chan_z = 1
  /\ \A r \in ConvRoles : weights[r] = 0
  /\ xfeed = 0
  /\ RunDone

LzValue == val[<<"Lz", 0>>].v[<<>>]

Undefined == {v \in AllVars : ~hasGrad[v]}
Range(s) == {s[k] : k \in DOMAIN s}
Min2(a, b) == IF a <= b THEN a ELSE b

MissingGradientsHandled ==
  /\ tpc # "aborted"
  /\ tpc \notin {"start", "clip"} => Range(warned) = Undefined
  /\ \A v \in Undefined : params[v] = <<>>
  /\ \A v \in AllVars \ Undefined :
       tpc \in {"train", "end"} /\ it > 0 =>
         /\ Len(params[v]) = it
         /\ Abs(params[v][it]) = Min2(Abs(g_run), 5)
         /\ params[v][it] * g_run > 0

NumPositive(x) == DOMAIN x.c # {} /\ \A k \in DOMAIN x.c : x.c[k] > 0

Updated == {train_op[k].v : k \in DOMAIN train_op}

C9_Inv ==
  /\ tpc = "grad" => params = read_fwd
  /\ tpc \in {"grad", "apply"} =>
       \A v \in AllVars : Len(read_fwd[v]) = IF v \in Updated THEN it ELSE 0
  /\ tpc = "apply" =>
       /\ read_grad = read_fwd
       /\ \A v \in AllVars :
            \/ params[v] = read_fwd[v]
            \/ /\ Len(params[v]) = Len(read_fwd[v]) + 1
               /\ SubSeq(params[v], 1, Len(read_fwd[v])) = read_fwd[v]
  /\ tpc = "end" =>
       /\ params = read_fwd
       /\ \A v \in AllVars :
            Len(params[v]) = IF v \in Updated THEN train_iters ELSE 0

C9_Step ==
  /\ params' # params =>
       /\ tpc = "apply" /\ it < train_iters /\ "train_op" \in fetches
       /\ \E v \in Updated :
            /\ Len(params'[v]) = Len(params[v]) + 1
            /\ \A w \in AllVars \ {v} : params'[w] = params[w]
  /\ read_fwd' # read_fwd =>
       /\ tpc = "fwd"
       /\ \A v \in Updated : Len(params[v]) = it
  /\ read_grad' # read_grad => tpc = "grad" /\ params = read_fwd

====
